---- MODULE Spec2Model ----
(***************************************************************************)
(* Model of the Qiwi wallet client of src/lib/index.js.                    *)
(*                                                                         *)
(* The client is a set of callback-style operations over the `request`     *)
(* HTTP transport.  The state is the client configuration, the wall clock  *)
(* read by Date.now(), the invocations made by the caller and the HTTP     *)
(* requests handed to the transport.  An operation action models the call  *)
(* of a public method; an On... action models the run of the callback the  *)
(* method gave to the transport, with every call that callback makes.      *)
(***************************************************************************)
EXTENDS Integers, Sequences, FiniteSets, TLC

VARIABLES client, now, inv, reqs

vars == <<client, now, inv, reqs>>

\* ------------------------------------------------------------------ bounds
MaxInv == 1
MaxClock == 1

\* ------------------------------------------------------------ JS values
\* Property values are strings; the two JS values undefined and null are
\* kept apart from every string a property can hold.
Undef == "#undefined"
NullV == "#null"

\* `${v}` inside a template literal.
Str(v) == IF v = Undef THEN "undefined" ELSE IF v = NullV THEN "null" ELSE v

\* A decoded response body: absent (undefined), null, or an object whose
\* properties, when missing, read as undefined.
Body(t, errorCode, authInfo, personId, code, codeValue, message) ==
    [t |-> t, errorCode |-> errorCode, authInfo |-> authInfo, personId |-> personId,
     code |-> code, codeValue |-> codeValue, message |-> message]

BAbsent == Body("undefined", Undef, Undef, Undef, Undef, Undef, Undef)
BNull == Body("null", Undef, Undef, Undef, Undef, Undef, Undef)
BEmpty == Body("object", Undef, Undef, Undef, Undef, Undef, Undef)
BError == Body("object", "QWPRC-303", Undef, Undef, Undef, Undef, "fail")
BErrorEmptyCode == Body("object", "", Undef, Undef, Undef, Undef, Undef)
BErrorNullCode == Body("object", NullV, Undef, Undef, Undef, Undef, Undef)
BAccount(p) == Body("object", Undef, "object", p, Undef, Undef, Undef)
BDetected == Body("object", Undef, Undef, Undef, "object", "0", "1963")
BNotDetected == Body("object", Undef, Undef, Undef, "object", "2", "not found")

PersonIds == {"79991234567", Undef}

\* The bodies an endpoint replies with: any endpoint may reply with no body,
\* null, an empty object or an error object; the profile endpoint also with
\* a profile, the detection endpoints also with a detection result.
CommonBodies == {BAbsent, BNull, BEmpty, BError, BErrorEmptyCode, BErrorNullCode}
ProfilePath == "/person-profile/v1/profile/current"
DetectPaths == {"/mobile/detect.action", "/card/detect.action"}
BodiesOf(path) ==
    CommonBodies
    \cup (IF path = ProfilePath THEN {BAccount(p) : p \in PersonIds} ELSE {})
    \cup (IF path \in DetectPaths THEN {BDetected, BNotDetected} ELSE {})

\* The values a callback can be called with.
Val(k, e, b, m) == [k |-> k, e |-> e, b |-> b, m |-> m]
VUndefined == Val("undefined", "", BAbsent, "")
VNull == Val("null", "", BAbsent, "")
VTransport(e) == Val("transport", e, BAbsent, "")
VBody(b) == IF b.t = "undefined" THEN VUndefined
            ELSE IF b.t = "null" THEN VNull
            ELSE Val("body", "", b, "")
VError(m) == Val("Error", "", BAbsent, m)

\* v == null in JS: true of null and of undefined.
IsNullish(v) == v.k \in {"null", "undefined"}
\* Truthiness of the values above (objects are truthy).
Truthy(v) == ~IsNullish(v)

TransportErrors == {"ETIMEDOUT"}

\* What the transport hands to the request callback: (error, response).
\* An error comes with or without a response object; without an error the
\* response is present.
Outcome(error, hasResponse, body) ==
    [error |-> error, hasResponse |-> hasResponse, body |-> body]
Outcomes(path) ==
    {Outcome(VTransport(e), FALSE, BAbsent) : e \in TransportErrors}
    \cup {Outcome(VTransport(e), TRUE, b) : e \in TransportErrors, b \in {BEmpty, BError}}
    \cup {Outcome(VNull, TRUE, b) : b \in BodiesOf(path)}
NoOutcome == Outcome(VUndefined, FALSE, BAbsent)

\* ------------------------------------------------------- configuration
Token == "token"
ApiUri == "https://edge.qiwi.com"

Headers(accept, contentType, authorization) ==
    [Accept |-> accept, contentType |-> contentType, Authorization |-> authorization]
\* `headers: this.headers` where `this` is not the client: the property is
\* undefined and the request carries no header of the client.
NoHeaders == Headers(Undef, Undef, Undef)

Qiwi(token) ==
    [token |-> token,
     headers |-> Headers("application/json", "application/json", "Bearer " \o token),
     apiUri |-> ApiUri,
     recipients |->
         [banks |-> [alfabank |-> 464, tinkoff |-> 466, ao_otp_bank |-> 804,
                     ao_rosselhozbank |-> 810, russkiy_standard |-> 815, pao_vtb |-> 816,
                     promsvyazbank |-> 821, pao_sberbank |-> 870, renessans_credit |-> 881,
                     moskovskiy_kreditniy_bank |-> 1134],
          cards |-> [visa_sng |-> 1960, visa_rus |-> 1963, mastercard_sng |-> 21012,
                     mastercard_rus |-> 21013, mir |-> 31652],
          differentServices |-> [onlime |-> 674, podari_jizn |-> 1239],
          qiwi |-> 99],
     txnType |-> [IN |-> 0, OUT |-> 1, ALL |-> 2],
     receiptFormat |-> [Jpeg |-> "JPEG", Pdf |-> "PDF"]]

\* ------------------------------------------------------------- requests
Url(base, path, param) == [base |-> base, path |-> path, param |-> param]

NoId == ""
\* (1000 * Date.now()).toString()
PaymentId(t) == ToString(1000 * t)

\* The values Date.now() can return when the last value it returned is t.
Clock(t) == t..(MaxClock + 1)

\* A request handed to the transport.  `then` names the callback the
\* operation gave to the transport.
Req(i, then, method, url, headers, id) ==
    [inv |-> i, then |-> then, method |-> method, url |-> url, headers |-> headers,
     id |-> id, state |-> "inflight", outcome |-> NoOutcome]

Invs == 1..MaxInv

\* An invocation of a public operation by the caller: how often its
\* callback has run and with what, and the error raised instead, if any.
NotCalled ==
    [op |-> "", st |-> "idle", arg |-> "", calls |-> 0, err |-> VUndefined,
     data |-> VUndefined, raised |-> ""]

Params == {"79991234567"}

Init ==
    /\ client = Qiwi(Token)
    /\ now = 1
    /\ inv = [i \in Invs |-> NotCalled]
    /\ reqs = <<>>

\* The caller calls operation `op`, which builds one request and hands it
\* to the transport.
Call(i, op, arg, r) ==
    /\ inv[i].st = "idle"
    /\ inv' = [inv EXCEPT ![i] = [NotCalled EXCEPT !.op = op, !.st = "pending", !.arg = arg]]
    /\ reqs' = Append(reqs, r)
    /\ UNCHANGED client

\* ------------------------------------------------- what a callback does
\* The effect of running a callback: it calls the next callback with
\* (err, data), it throws, or it hands a further request to the transport
\* (whose URL is templated with `param`).
Called(e, d) == [kind |-> "call", err |-> e, data |-> d, msg |-> "", param |-> ""]
Thrown(m) == [kind |-> "throw", err |-> VUndefined, data |-> VUndefined, msg |-> m, param |-> ""]
Requested(p) == [kind |-> "request", err |-> VUndefined, data |-> VUndefined, msg |-> "", param |-> p]

TypeError == "TypeError"

\* processRequestCallback with `body && body.errorCode`: a missing body
\* is passed on as a result instead of being dereferenced.
processRequestCallbackGuarded(error, body) ==
    IF ~IsNullish(error) THEN Called(error, VNull)
    ELSE IF body.t = "object" /\ body.errorCode \notin {Undef, NullV}
    THEN Called(VBody(body), VNull)
    ELSE Called(VNull, VBody(body))

\* processRequestCallback without its errorCode test.
processRequestCallbackNoErrorCode(error, body) ==
    IF ~IsNullish(error) THEN Called(error, VNull)
    ELSE IF body.t # "object" THEN Thrown(TypeError)
    ELSE Called(VNull, VBody(body))

\* function processRequestCallback(error, body, callback)
processRequestCallback(error, body) ==
    IF ~IsNullish(error) THEN Called(error, VNull)
    ELSE IF body.t # "object" THEN Thrown(TypeError)
    ELSE IF body.errorCode \notin {Undef, NullV} THEN Called(VBody(body), VNull)
    ELSE Called(VNull, VBody(body))

\* (error, response) => { processRequestCallback(error, response.body, callback); }
OnResponse(out) ==
    IF ~out.hasResponse THEN Thrown(TypeError)
    ELSE processRequestCallback(out.error, out.body)

\* AccountInfoCallback templating the URL with data.authInfo instead of
\* data.authInfo.personId.
AccountInfoCallbackWrongId(err, data) ==
    IF ~IsNullish(err) THEN Called(err, VNull)
    ELSE IF IsNullish(data) THEN Called(VError("Can not retrieve account info"), VNull)
    ELSE IF data.b.authInfo = Undef THEN Thrown(TypeError)
    ELSE Requested("[object Object]")

\* The callback getOperationHistory and getOperationStatistics give to
\* getAccountInfo.
AccountInfoCallback(err, data) ==
    IF ~IsNullish(err) THEN Called(err, VNull)
    ELSE IF IsNullish(data) THEN Called(VError("Can not retrieve account info"), VNull)
    ELSE IF data.b.authInfo = Undef THEN Thrown(TypeError)
    ELSE Requested(Str(data.b.personId))

\* DetectOperatorCallback reporting a failed detection the way toCard does.
DetectOperatorCallbackViaCallback(err, data) ==
    IF Truthy(err) THEN Called(VError("Can't detect operator."), VNull)
    ELSE IF data.b.code = Undef THEN Thrown(TypeError)
    ELSE IF data.b.codeValue = "2" THEN Called(VError("Can't detect operator."), VNull)
    ELSE Requested(Str(data.b.message))

\* The callback toMobilePhone gives to detectOperator.
DetectOperatorCallback(err, data) ==
    IF Truthy(err) THEN Thrown("Can't detect operator.")
    ELSE IF data.b.code = Undef THEN Thrown(TypeError)
    ELSE IF data.b.codeValue = "2" THEN Thrown("Can't detect operator.")
    ELSE Requested(Str(data.b.message))

\* The callback toCard gives to detectCard.
DetectCardCallback(err, data) ==
    IF Truthy(err) THEN Called(VError("Wrong card number!"), VUndefined)
    ELSE IF data.b.code = Undef THEN Thrown(TypeError)
    ELSE IF data.b.codeValue = "2" THEN Called(VError("Wrong card number!"), VUndefined)
    ELSE Requested(Str(data.b.message))

\* The request callback of getAccountInfo runs processRequestCallback, which
\* runs the callback of getOperationHistory or getOperationStatistics unless
\* it threw before.
AccountInfoThen(out) ==
    LET r == OnResponse(out)
    IN  IF r.kind = "call" THEN AccountInfoCallback(r.err, r.data) ELSE r

\* The same for detectOperator and the callback of toMobilePhone.
DetectOperatorThen(out) ==
    LET r == OnResponse(out)
    IN  IF r.kind = "call" THEN DetectOperatorCallback(r.err, r.data) ELSE r

\* The same for detectCard and the callback of toCard.
DetectCardThen(out) ==
    LET r == OnResponse(out)
    IN  IF r.kind = "call" THEN DetectCardCallback(r.err, r.data) ELSE r

\* ------------------------------------------------------------ operations
PaymentsPath == "/sinap/terms/{}/payments"

getIdentificationData(i, wallet) ==
    /\ Call(i, "getIdentificationData", wallet,
            Req(i, "final", "GET",
                Url(client.apiUri, "/identification/v1/persons/{}/identification", Str(wallet)),
                client.headers, NoId))
    /\ UNCHANGED now

identifyWallet(i, wallet) ==
    /\ Call(i, "identifyWallet", wallet,
            Req(i, "final", "POST",
                Url(client.apiUri, "/identification/v1/persons/{}/identification", Str(wallet)),
                client.headers, NoId))
    /\ UNCHANGED now

\* The request of getAccountInfo, whose callback is `then`.
AccountInfoReq(i, then) ==
    Req(i, then, "GET", Url(client.apiUri, ProfilePath, ""),
        client.headers, NoId)

getAccountInfo(i) ==
    /\ Call(i, "getAccountInfo", "", AccountInfoReq(i, "final"))
    /\ UNCHANGED now

\* getBalance built like checkCommission, without the client's headers.
getBalanceNoHeaders(i) ==
    /\ Call(i, "getBalance", "",
            Req(i, "final", "GET",
                Url(client.apiUri, "/funding-sources/v1/accounts/current", ""),
                NoHeaders, NoId))
    /\ UNCHANGED now

getBalance(i) ==
    /\ Call(i, "getBalance", "",
            Req(i, "final", "GET",
                Url(client.apiUri, "/funding-sources/v1/accounts/current", ""),
                client.headers, NoId))
    /\ UNCHANGED now

getOperationHistory(i) ==
    /\ Call(i, "getOperationHistory", "", AccountInfoReq(i, "history"))
    /\ UNCHANGED now

getOperationStatistics(i) ==
    /\ Call(i, "getOperationStatistics", "", AccountInfoReq(i, "statistics"))
    /\ UNCHANGED now

getTransactionInfo(i, transactionId) ==
    /\ Call(i, "getTransactionInfo", transactionId,
            Req(i, "final", "GET",
                Url(client.apiUri, "/payment-history/v2/transactions/{}", Str(transactionId)),
                client.headers, NoId))
    /\ UNCHANGED now

getReceipt(i, transactionId) ==
    /\ Call(i, "getReceipt", transactionId,
            Req(i, "final", "GET",
                Url(client.apiUri, "/payment-history/v1/transactions/{}/cheque/file",
                    Str(transactionId)),
                client.headers, NoId))
    /\ UNCHANGED now

toWallet(i, account, t) ==
    /\ Call(i, "toWallet", account,
            Req(i, "final", "POST", Url(client.apiUri, "/sinap/terms/99/payments", ""),
                client.headers, PaymentId(t)))
    /\ now' = t

\* function detectOperator(phone, callback): a plain function, so `this`
\* is not the client and this.headers is undefined.
DetectOperatorReq(i) ==
    Req(i, "operator", "POST", Url("https://qiwi.com", "/mobile/detect.action", ""),
        NoHeaders, NoId)

toMobilePhone(i, account) ==
    /\ Call(i, "toMobilePhone", account, DetectOperatorReq(i))
    /\ UNCHANGED now

\* The request of detectCard, whose callback is `then`.
DetectCardReq(i, then) ==
    Req(i, then, "POST", Url("https://qiwi.com", "/card/detect.action", ""),
        client.headers, NoId)

toCard(i, account) ==
    /\ Call(i, "toCard", account, DetectCardReq(i, "card"))
    /\ UNCHANGED now

toBank(i, account, recipient, t) ==
    /\ Call(i, "toBank", account,
            Req(i, "final", "POST", Url(client.apiUri, PaymentsPath, Str(recipient)),
                client.headers, PaymentId(t)))
    /\ now' = t

\* checkCommission dropping the headers from the client itself
\* (`this.headers = undefined`) rather than building options without them.
checkCommissionClearsHeaders(i, recipient) ==
    /\ inv[i].st = "idle"
    /\ inv' = [inv EXCEPT ![i] =
                 [NotCalled EXCEPT !.op = "checkCommission", !.st = "pending",
                                   !.arg = recipient]]
    /\ reqs' = Append(reqs,
                      Req(i, "final", "GET",
                          Url(client.apiUri, "/sinap/providers/{}/form", Str(recipient)),
                          NoHeaders, NoId))
    /\ client' = [client EXCEPT !.headers = NoHeaders]
    /\ UNCHANGED now

checkCommission(i, recipient) ==
    /\ Call(i, "checkCommission", recipient,
            Req(i, "final", "GET", Url(client.apiUri, "/sinap/providers/{}/form", Str(recipient)),
                NoHeaders, NoId))
    /\ UNCHANGED now

checkOnlineCommission(i, recipient) ==
    /\ Call(i, "checkOnlineCommission", recipient,
            Req(i, "final", "POST",
                Url(client.apiUri, "/sinap/providers/{}/onlineCommission", Str(recipient)),
                NoHeaders, NoId))
    /\ UNCHANGED now

detectCard(i, cardNumber) ==
    /\ Call(i, "detectCard", cardNumber, DetectCardReq(i, "final"))
    /\ UNCHANGED now

getCrossRates(i) ==
    /\ Call(i, "getCrossRates", "",
            Req(i, "final", "GET", Url(client.apiUri, "/sinap/crossRates", ""),
                client.headers, NoId))
    /\ UNCHANGED now

addWebHook(i, url) ==
    /\ Call(i, "addWebHook", url,
            Req(i, "final", "PUT", Url(client.apiUri, "/payment-notifier/v1/hooks", ""),
                client.headers, NoId))
    /\ UNCHANGED now

removeWebHook(i, hookId) ==
    /\ Call(i, "removeWebHook", hookId,
            Req(i, "final", "DELETE",
                Url(client.apiUri, "/payment-notifier/v1/hooks/{}", Str(hookId)),
                client.headers, NoId))
    /\ UNCHANGED now

getWebHookSecret(i, hookId) ==
    /\ Call(i, "getWebHookSecret", hookId,
            Req(i, "final", "GET",
                Url(client.apiUri, "/payment-notifier/v1/hooks/{}/key", Str(hookId)),
                client.headers, NoId))
    /\ UNCHANGED now

requestNewWebHookSecret(i, hookId) ==
    /\ Call(i, "requestNewWebHookSecret", hookId,
            Req(i, "final", "POST",
                Url(client.apiUri, "/payment-notifier/v1/hooks/{}/newkey", Str(hookId)),
                client.headers, NoId))
    /\ UNCHANGED now

getActiveWebHook(i) ==
    /\ Call(i, "getActiveWebHook", "",
            Req(i, "final", "GET", Url(client.apiUri, "/payment-notifier/v1/hooks/active", ""),
                client.headers, NoId))
    /\ UNCHANGED now

testActiveWebHook(i) ==
    /\ Call(i, "testActiveWebHook", "",
            Req(i, "final", "GET", Url(client.apiUri, "/payment-notifier/v1/hooks/test", ""),
                client.headers, NoId))
    /\ UNCHANGED now

\* ---------------------------------------------------- transport replies
\* The transport runs the callback of request k once, with outcome `out`;
\* the callback's effect is `r`, and `next` is the request it issues when
\* r asks for one, reading Date.now() as t.
Complete(k, out, r, next, t) ==
    LET i == reqs[k].inv
        done == [reqs EXCEPT ![k].state = "done", ![k].outcome = out]
    IN  /\ reqs' = IF r.kind = "request" THEN Append(done, next) ELSE done
        /\ inv' = [inv EXCEPT ![i] =
                     IF r.kind = "call"
                     THEN [@ EXCEPT !.st = "done", !.calls = @ + 1,
                                    !.err = r.err, !.data = r.data]
                     ELSE IF r.kind = "throw"
                     THEN [@ EXCEPT !.st = "raised", !.raised = r.msg]
                     ELSE @]
        /\ now' = IF r.kind = "request" THEN t ELSE now
        /\ UNCHANGED client

InFlight(k, then) == reqs[k].state = "inflight" /\ reqs[k].then = then

\* The bodies and outcomes the transport can give request k.
Replies(k) == Outcomes(reqs[k].url.path)

\* OnFinalResponse with a retry: after a transport error the request is
\* handed to the transport again instead of reporting the error.
OnFinalResponseRetry(k) ==
    /\ InFlight(k, "final")
    /\ \E out \in Replies(k) :
         Complete(k, out,
                  IF ~IsNullish(out.error) THEN Requested(reqs[k].url.param)
                  ELSE OnResponse(out),
                  reqs[k], now)

\* The callback of the only request of a one-request operation and of the
\* last request of the others.
OnFinalResponse(k) ==
    /\ InFlight(k, "final")
    /\ \E out \in Replies(k) : Complete(k, out, OnResponse(out), reqs[k], now)

\* The callback getOperationHistory gives to getAccountInfo.
OnAccountInfoForHistory(k) ==
    /\ InFlight(k, "history")
    /\ \E out \in Replies(k) :
         LET r == AccountInfoThen(out)
         IN  Complete(k, out, r,
                      Req(reqs[k].inv, "final", "GET",
                          Url(client.apiUri, "/payment-history/v2/persons/{}/payments",
                              r.param),
                          client.headers, NoId),
                      now)

\* The callback getOperationStatistics gives to getAccountInfo.
OnAccountInfoForStatistics(k) ==
    /\ InFlight(k, "statistics")
    /\ \E out \in Replies(k) :
         LET r == AccountInfoThen(out)
         IN  Complete(k, out, r,
                      Req(reqs[k].inv, "final", "GET",
                          Url(client.apiUri, "/payment-history/v2/persons/{}/payments/total",
                              r.param),
                          client.headers, NoId),
                      now)

\* The callback toMobilePhone gives to detectOperator.
OnOperatorDetected(k) ==
    /\ InFlight(k, "operator")
    /\ \E out \in Replies(k), t \in Clock(now) :
         LET r == DetectOperatorThen(out)
         IN  /\ r.kind # "request" => t = now
             /\ Complete(k, out, r,
                         Req(reqs[k].inv, "final", "POST",
                             Url(client.apiUri, PaymentsPath, r.param),
                             client.headers, PaymentId(t)),
                         t)

\* The callback toCard gives to detectCard.
OnCardDetected(k) ==
    /\ InFlight(k, "card")
    /\ \E out \in Replies(k), t \in Clock(now) :
         LET r == DetectCardThen(out)
         IN  /\ r.kind # "request" => t = now
             /\ Complete(k, out, r,
                         Req(reqs[k].inv, "final", "POST",
                             Url(client.apiUri, PaymentsPath, r.param),
                             client.headers, PaymentId(t)),
                         t)

Next ==
    \/ \E i \in Invs, p \in Params : getIdentificationData(i, p)
    \/ \E i \in Invs, p \in Params : identifyWallet(i, p)
    \/ \E i \in Invs : getAccountInfo(i)
    \/ \E i \in Invs : getBalance(i)
    \/ \E i \in Invs : getOperationHistory(i)
    \/ \E i \in Invs : getOperationStatistics(i)
    \/ \E i \in Invs, p \in Params : getTransactionInfo(i, p)
    \/ \E i \in Invs, p \in Params : getReceipt(i, p)
    \/ \E i \in Invs, p \in Params, t \in Clock(now) : toWallet(i, p, t)
    \/ \E i \in Invs, p \in Params : toMobilePhone(i, p)
    \/ \E i \in Invs, p \in Params : toCard(i, p)
    \/ \E i \in Invs, p \in Params, q \in Params, t \in Clock(now) : toBank(i, p, q, t)
    \/ \E i \in Invs, p \in Params : checkCommission(i, p)
    \/ \E i \in Invs, p \in Params : checkOnlineCommission(i, p)
    \/ \E i \in Invs, p \in Params : detectCard(i, p)
    \/ \E i \in Invs : getCrossRates(i)
    \/ \E i \in Invs, p \in Params : addWebHook(i, p)
    \/ \E i \in Invs, p \in Params : removeWebHook(i, p)
    \/ \E i \in Invs, p \in Params : getWebHookSecret(i, p)
    \/ \E i \in Invs, p \in Params : requestNewWebHookSecret(i, p)
    \/ \E i \in Invs : getActiveWebHook(i)
    \/ \E i \in Invs : testActiveWebHook(i)
    \/ \E k \in DOMAIN reqs : OnFinalResponse(k)
    \/ \E k \in DOMAIN reqs : OnAccountInfoForHistory(k)
    \/ \E k \in DOMAIN reqs : OnAccountInfoForStatistics(k)
    \/ \E k \in DOMAIN reqs : OnOperatorDetected(k)
    \/ \E k \in DOMAIN reqs : OnCardDetected(k)

Spec == Init /\ [][Next]_vars

\* ---------------------------------------------------------------- claims
ReqsOf(i) == {k \in DOMAIN reqs : reqs[k].inv = i}
Pending(i) == {k \in ReqsOf(i) : reqs[k].state = "inflight"}
\* The invocation was made and nothing of it is left to run.
Settled(i) == inv[i].st # "idle" /\ Pending(i) = {}
\* The caller's callback got exactly (e, d).
Delivered(i, e, d) == inv[i].calls = 1 /\ inv[i].err = e /\ inv[i].data = d

\* The outcome of request k is a transport failure.
TransportFailed(k) == reqs[k].state = "done" /\ ~IsNullish(reqs[k].outcome.error)
\* The transport succeeded and the body of request k is an object.
GotObject(k) ==
    /\ reqs[k].state = "done"
    /\ IsNullish(reqs[k].outcome.error)
    /\ reqs[k].outcome.hasResponse
    /\ reqs[k].outcome.body.t = "object"
\* The body of request k carries a non-empty errorCode.
HasErrorCode(k) ==
    /\ reqs[k].state = "done"
    /\ reqs[k].outcome.hasResponse
    /\ reqs[k].outcome.body.t = "object"
    /\ reqs[k].outcome.body.errorCode \notin {Undef, NullV, ""}
BodyOf(k) == reqs[k].outcome.body

TwoStepOps == {"getOperationHistory", "getOperationStatistics"}
Lookups == {"history", "statistics", "operator", "card"}
\* The first request of a two-request operation.
LookupOf(i) == {k \in ReqsOf(i) : reqs[k].then \in Lookups}
\* The request a two-request operation issues after its lookup.
SecondOf(i) == {k \in ReqsOf(i) : reqs[k].then = "final"}

\* C1: every invocation of every operation, whatever the transport's
\* outcome, ends with the caller's callback invoked exactly once.
C1_CallbackExactlyOnce ==
    \A i \in Invs : Settled(i) => inv[i].calls = 1

\* C2: whenever the caller's callback is invoked, exactly one of error and
\* result is non-null (null in the sense of JS `== null`).
C2_ExactlyOneNonNull ==
    \A i \in Invs :
        inv[i].calls > 0 => (IsNullish(inv[i].err) # IsNullish(inv[i].data))

\* toCard has reported a failed card detection to the caller.
C2_Witness ==
    \E i \in Invs :
        /\ inv[i].op = "toCard"
        /\ inv[i].calls = 1
        /\ inv[i].err = VError("Wrong card number!")
        /\ IsNullish(inv[i].data)

\* C3: a transport failure, with or without a response object, reaches the
\* caller's callback as (that very error, null), for every operation.
C3_TransportErrorDelivered ==
    \A k \in DOMAIN reqs :
        TransportFailed(k) => Delivered(reqs[k].inv, reqs[k].outcome.error, VNull)

\* C4 as claimed: a body with a non-empty errorCode is delivered as
\* (body, null) whether or not the transport reported an error.
C4_ErrorBodyRegardless ==
    \A k \in DOMAIN reqs :
        (reqs[k].then = "final" /\ HasErrorCode(k))
            => Delivered(reqs[k].inv, VBody(BodyOf(k)), VNull)

\* C4 amended: when the transport reports no error, a body with a
\* non-empty errorCode is delivered as (body, null); when it reports an
\* error alongside that body, the transport error is delivered as
\* (error, null).
C4_ErrorBodyWithoutTransportError ==
    \A k \in DOMAIN reqs :
        (reqs[k].then = "final" /\ HasErrorCode(k))
            => IF IsNullish(reqs[k].outcome.error)
               THEN Delivered(reqs[k].inv, VBody(BodyOf(k)), VNull)
               ELSE Delivered(reqs[k].inv, reqs[k].outcome.error, VNull)

\* An error body of a successful transport call has been delivered.
C4_Witness ==
    \E k \in DOMAIN reqs :
        /\ reqs[k].then = "final"
        /\ HasErrorCode(k)
        /\ IsNullish(reqs[k].outcome.error)
        /\ inv[reqs[k].inv].calls = 1
        /\ inv[reqs[k].inv].err = VBody(BError)

\* C5: when the transport succeeds and the body has no errorCode, the
\* callback gets (null, body) with the body unchanged; getBalance issues
\* exactly one request, a GET of funding-sources/v1/accounts/current with
\* the bearer Authorization header.
C5_SuccessPassthrough ==
    /\ \A k \in DOMAIN reqs :
           (reqs[k].then = "final" /\ GotObject(k) /\ BodyOf(k).errorCode = Undef)
               => Delivered(reqs[k].inv, VNull, Val("body", "", BodyOf(k), ""))
    /\ \A i \in Invs :
           inv[i].op = "getBalance" =>
               /\ Cardinality(ReqsOf(i)) = 1
               /\ \A k \in ReqsOf(i) :
                      /\ reqs[k].method = "GET"
                      /\ reqs[k].url =
                             Url("https://edge.qiwi.com",
                                 "/funding-sources/v1/accounts/current", "")
                      /\ reqs[k].headers.Authorization = "Bearer token"

\* getBalance has returned the body of a successful call.
C5_Witness ==
    \E i \in Invs :
        /\ inv[i].op = "getBalance"
        /\ inv[i].calls = 1
        /\ inv[i].err = VNull
        /\ inv[i].data = Val("body", "", BEmpty, "")

\* The account-info lookup of invocation i failed, by request k.
AccountInfoFailed(i, k) ==
    /\ inv[i].op \in TwoStepOps
    /\ k \in LookupOf(i)
    /\ reqs[k].state = "done"
    /\ (TransportFailed(k) \/ HasErrorCode(k))
\* The error the account-info lookup k produced.
AccountInfoError(k) ==
    IF TransportFailed(k) THEN reqs[k].outcome.error ELSE VBody(BodyOf(k))

\* C6: when the account-info lookup of getOperationHistory or
\* getOperationStatistics fails, by transport error or by an error body, no
\* history/statistics request is issued and the callback gets exactly the
\* lookup's error with a null result.
C6_AccountInfoErrorPropagated ==
    \A i \in Invs : \A k \in ReqsOf(i) :
        AccountInfoFailed(i, k) =>
            /\ SecondOf(i) = {}
            /\ Delivered(i, AccountInfoError(k), VNull)

\* The detection request k of invocation i failed or found nothing.
NotDetected(i, k) ==
    /\ k \in LookupOf(i)
    /\ reqs[k].state = "done"
    /\ \/ TransportFailed(k)
       \/ HasErrorCode(k)
       \/ GotObject(k) /\ BodyOf(k).errorCode = Undef /\ BodyOf(k).code # Undef
            /\ BodyOf(k).codeValue = "2"

\* C7: when card detection fails or returns status "2", toCard delivers the
\* invalid-card-number error through the callback, raises nothing and
\* issues no payment request.
C7_CardNotDetected ==
    \A i \in Invs : \A k \in ReqsOf(i) :
        (inv[i].op = "toCard" /\ NotDetected(i, k)) =>
            /\ inv[i].calls = 1
            /\ inv[i].err = VError("Wrong card number!")
            /\ inv[i].st # "raised"
            /\ SecondOf(i) = {}

\* C8: when operator detection fails or returns status "2", toMobilePhone
\* issues no payment request and raises an error instead of calling the
\* caller's callback.
C8_OperatorNotDetected ==
    \A i \in Invs : \A k \in ReqsOf(i) :
        (inv[i].op = "toMobilePhone" /\ NotDetected(i, k)) =>
            /\ inv[i].st = "raised"
            /\ inv[i].raised # ""
            /\ inv[i].calls = 0
            /\ SecondOf(i) = {}

\* toMobilePhone has raised on a detection result with status "2".
C8_Witness ==
    \E i \in Invs : \E k \in ReqsOf(i) :
        /\ inv[i].op = "toMobilePhone"
        /\ NotDetected(i, k)
        /\ BodyOf(k) = BNotDetected
        /\ inv[i].raised = "Can't detect operator."

\* C9: when the account-info lookup succeeds at transport level with no
\* data (a null, absent or empty body), getOperationHistory and
\* getOperationStatistics deliver the cannot-retrieve-account-info error
\* with a null result and issue no history/statistics request.
C9_NoAccountData ==
    \A i \in Invs : \A k \in LookupOf(i) :
        (/\ inv[i].op \in TwoStepOps
         /\ reqs[k].state = "done"
         /\ IsNullish(reqs[k].outcome.error)
         /\ BodyOf(k) \in {BNull, BAbsent, BEmpty})
            => /\ Delivered(i, VError("Can not retrieve account info"), VNull)
               /\ SecondOf(i) = {}

\* C10: the history/statistics request is issued only after the
\* account-info request has completed successfully, its URL carries the
\* personId of that account-info body, and the two requests of an
\* invocation are never in flight together.
C10_StepTwoAfterStepOne ==
    \A i \in Invs :
        inv[i].op \in TwoStepOps =>
            /\ Cardinality(Pending(i)) <= 1
            /\ \A k2 \in SecondOf(i) :
                   /\ \E k1 \in LookupOf(i) :
                          /\ k1 < k2
                          /\ GotObject(k1)
                          /\ BodyOf(k1).errorCode \in {Undef, NullV}
                          /\ reqs[k2].url.param = Str(BodyOf(k1).personId)
                          /\ reqs[k2].url.path \in
                                 {"/payment-history/v2/persons/{}/payments",
                                  "/payment-history/v2/persons/{}/payments/total"}

\* A history request is in flight for the personId of the profile.
C10_Witness ==
    \E i \in Invs : \E k2 \in SecondOf(i) :
        /\ inv[i].op = "getOperationHistory"
        /\ reqs[k2].state = "inflight"
        /\ reqs[k2].url.param = "79991234567"
        /\ \A k1 \in LookupOf(i) : reqs[k1].state = "done"

PassthroughOps ==
    {"getIdentificationData", "getAccountInfo", "getBalance", "getTransactionInfo",
     "getReceipt", "getCrossRates", "checkCommission", "checkOnlineCommission",
     "addWebHook", "removeWebHook", "getWebHookSecret", "requestNewWebHookSecret",
     "getActiveWebHook", "testActiveWebHook"}

\* C11: every invocation of a simple passthrough operation issues exactly
\* one HTTP request, whatever the outcome, and no invocation of any
\* operation issues more than two requests.
C11_OneRequestNoRetry ==
    \A i \in Invs :
        /\ (inv[i].op \in PassthroughOps) => Cardinality(ReqsOf(i)) = 1
        /\ Cardinality(ReqsOf(i)) <= 2

\* An invocation has ended on a transport error of its last request
\* without a further request: a passthrough one after one request, or a
\* two-request one after two.
C11_Witness ==
    \E i \in Invs :
        /\ Settled(i)
        /\ \E k \in ReqsOf(i) : reqs[k].then = "final" /\ TransportFailed(k)
        /\ \/ inv[i].op \in PassthroughOps /\ Cardinality(ReqsOf(i)) = 1
           \/ inv[i].op \in TwoStepOps /\ Cardinality(ReqsOf(i)) = 2

\* The request carries the Authorization header of the configured token.
HasBearer(k) == reqs[k].headers.Authorization = "Bearer " \o client.token
CommissionLookupPath == "/sinap/providers/{}/form"
OnlineCommissionPath == "/sinap/providers/{}/onlineCommission"
OperatorDetectionPath == "/mobile/detect.action"

\* C12: every request carries the Authorization header 'Bearer ' + token,
\* except those to the commission-lookup and operator-detection endpoints,
\* which do not; the online commission estimate and card detection carry it.
C12_BearerExceptTwo ==
    \A k \in DOMAIN reqs :
        HasBearer(k) <=>
            reqs[k].url.path \notin {CommissionLookupPath, OperatorDetectionPath}

\* C12 with the third endpoint built without headers: the requests without
\* the Authorization header are exactly those of checkCommission,
\* checkOnlineCommission and detectOperator.
BearerExceptThree ==
    \A k \in DOMAIN reqs :
        HasBearer(k) <=>
            reqs[k].url.path \notin
                {CommissionLookupPath, OnlineCommissionPath, OperatorDetectionPath}

DetectionBase == "https://qiwi.com"

MaxPay == 2
Pays == 1..MaxPay

InitPay ==
    /\ client = Qiwi(Token)
    /\ now = 1
    /\ inv = [i \in Pays |-> NotCalled]
    /\ reqs = <<>>

NextPay ==
    \/ \E i \in Pays, p \in Params, t \in Clock(now) : toWallet(i, p, t)
    \/ \E i \in Pays, p \in Params : toMobilePhone(i, p)
    \/ \E i \in Pays, p \in Params : toCard(i, p)
    \/ \E i \in Pays, p \in Params, q \in Params, t \in Clock(now) : toBank(i, p, q, t)
    \/ \E k \in DOMAIN reqs : OnFinalResponse(k)
    \/ \E k \in DOMAIN reqs : OnOperatorDetected(k)
    \/ \E k \in DOMAIN reqs : OnCardDetected(k)

SpecPay == InitPay /\ [][NextPay]_vars

\* The requests that carry a payment identifier, in the order they were built.
PaymentReqs == {k \in DOMAIN reqs : reqs[k].id # NoId}
\* The number a payment identifier is the decimal string of.
IdValue(id) == 1000 * (CHOOSE t \in 1..(MaxClock + 1) : PaymentId(t) = id)

\* C14: any two payment requests built by the process carry distinct
\* identifiers, also when Date.now() did not advance between them, and a
\* later request never carries a smaller identifier than an earlier one.
C14_DistinctPaymentIds ==
    \A k1, k2 \in PaymentReqs :
        k1 < k2 =>
            /\ reqs[k1].id # reqs[k2].id
            /\ IdValue(reqs[k1].id) <= IdValue(reqs[k2].id)
====
